---------------------------- MODULE Spec2Model ----------------------------
(***************************************************************************)
(* A model of package flog (src/flog.go): the syslog priority encoding,    *)
(* the priority-string parser log_level, the constructors New / File, and  *)
(* the concurrent write path of Flog (severity methods, Write,             *)
(* SetPriority, SetTag, Close) over one shared sink.                       *)
(*                                                                         *)
(* Strings are sequences of one-character strings, so that ToUpper,        *)
(* SplitN, HasSuffix, the %d conversion and len() are computed and not     *)
(* assumed.  Goroutines are the processes of Procs; every memory access    *)
(* of a method that another goroutine can race with is a step of its own.  *)
(***************************************************************************)
EXTENDS Integers, Sequences, FiniteSets, TLC

(***************************************************************************)
(* Bounds of the model.                                                    *)
(***************************************************************************)
NumProcs == 2
MaxCalls == 2
MaxSetTicks == 3
MaxTime == 3

Procs == 1..NumProcs

(***************************************************************************)
(* Priority constants (flog.go 16-57).                                     *)
(***************************************************************************)
severityMask == 7
facilityMask == 248

LOG_EMERG == 0
LOG_ALERT == 1
LOG_CRIT == 2
LOG_ERR == 3
LOG_WARNING == 4
LOG_NOTICE == 5
LOG_INFO == 6
LOG_DEBUG == 7

LOG_KERN == 0 * 8
LOG_USER == 1 * 8
LOG_MAIL == 2 * 8
LOG_DAEMON == 3 * 8
LOG_AUTH == 4 * 8
LOG_SYSLOG == 5 * 8
LOG_LPR == 6 * 8
LOG_NEWS == 7 * 8
LOG_UUCP == 8 * 8
LOG_CRON == 9 * 8
LOG_AUTHPRIV == 10 * 8
LOG_FTP == 11 * 8
LOG_LOCAL0 == 16 * 8
LOG_LOCAL1 == 17 * 8
LOG_LOCAL2 == 18 * 8
LOG_LOCAL3 == 19 * 8
LOG_LOCAL4 == 20 * 8
LOG_LOCAL5 == 21 * 8
LOG_LOCAL6 == 22 * 8
LOG_LOCAL7 == 23 * 8

(***************************************************************************)
(* Go's & and | on non-negative ints, bit by bit.                          *)
(***************************************************************************)
RECURSIVE BitAnd(_, _)
BitAnd(a, b) ==
    IF a = 0 \/ b = 0 THEN 0
    ELSE (IF a % 2 = 1 /\ b % 2 = 1 THEN 1 ELSE 0) + 2 * BitAnd(a \div 2, b \div 2)

RECURSIVE BitOr(_, _)
BitOr(a, b) ==
    IF a = 0 THEN b
    ELSE IF b = 0 THEN a
    ELSE (IF a % 2 = 1 \/ b % 2 = 1 THEN 1 ELSE 0) + 2 * BitOr(a \div 2, b \div 2)

(***************************************************************************)
(* Strings.                                                                *)
(***************************************************************************)
Lower == <<"a","b","c","d","e","f","g","h","i","j","k","l","m",
           "n","o","p","q","r","s","t","u","v","w","x","y","z">>
Upper == <<"A","B","C","D","E","F","G","H","I","J","K","L","M",
           "N","O","P","Q","R","S","T","U","V","W","X","Y","Z">>
Digits == <<"0","1","2","3","4","5","6","7","8","9">>

Range(s) == {s[i] : i \in 1..Len(s)}

\* strings.ToUpper on one character: a-z are mapped, everything else is kept
UpperChar(c) ==
    IF \E i \in 1..26 : Lower[i] = c
    THEN Upper[CHOOSE i \in 1..26 : Lower[i] = c]
    ELSE c

ToUpper(s) == [i \in 1..Len(s) |-> UpperChar(s[i])]

\* strings.SplitN(s, ":", 2): split at the first colon, if there is one
SplitN2(s) ==
    IF \E i \in 1..Len(s) : s[i] = ":"
    THEN LET k == CHOOSE i \in 1..Len(s) : s[i] = ":" /\ \A j \in 1..(i-1) : s[j] # ":"
         IN <<SubSeq(s, 1, k - 1), SubSeq(s, k + 1, Len(s))>>
    ELSE <<s>>

\* strings.HasSuffix(msg, "\n")
HasSuffixNL(msg) == Len(msg) > 0 /\ msg[Len(msg)] = "\n"

\* the %d verb on a non-negative int
RECURSIVE Itoa(_)
Itoa(n) == IF n < 10 THEN <<Digits[n + 1]>> ELSE Itoa(n \div 10) \o <<Digits[(n % 10) + 1]>>

(***************************************************************************)
(* log_level (flog.go 230-279).                                            *)
(***************************************************************************)
FacilityOf(tok) ==
    CASE tok = <<"K","E","R","N">> -> LOG_KERN
      [] tok = <<"U","S","E","R">> -> LOG_USER
      [] tok = <<"M","A","I","L">> -> LOG_MAIL
      [] tok = <<"D","A","E","M","O","N">> -> LOG_DAEMON
      [] tok = <<"A","U","T","H">> -> LOG_AUTH
      [] tok = <<"S","Y","S","L","O","G">> -> LOG_SYSLOG
      [] tok = <<"L","P","R">> -> LOG_LPR
      [] tok = <<"N","E","W","S">> -> LOG_NEWS
      [] tok = <<"U","U","C","P">> -> LOG_UUCP
      [] tok = <<"C","R","O","N">> -> LOG_CRON
      [] tok = <<"A","U","T","H","P","R","I","V">> -> LOG_AUTHPRIV
      [] tok = <<"F","T","P">> -> LOG_FTP
      [] tok = <<>> -> LOG_LOCAL0
      [] tok = <<"L","O","C","A","L","0">> -> LOG_LOCAL0
      [] tok = <<"L","O","C","A","L","1">> -> LOG_LOCAL1
      [] tok = <<"L","O","C","A","L","2">> -> LOG_LOCAL2
      [] tok = <<"L","O","C","A","L","3">> -> LOG_LOCAL3
      [] tok = <<"L","O","C","A","L","4">> -> LOG_LOCAL4
      [] tok = <<"L","O","C","A","L","5">> -> LOG_LOCAL5
      [] tok = <<"L","O","C","A","L","6">> -> LOG_LOCAL6
      [] tok = <<"L","O","C","A","L","7">> -> LOG_LOCAL7
      [] OTHER -> -1

SeverityOf(tok) ==
    CASE tok = <<"E","M","E","R","G">> -> LOG_EMERG
      [] tok = <<"A","L","E","R","T">> -> LOG_ALERT
      [] tok = <<"C","R","I","T">> -> LOG_CRIT
      [] tok = <<"E","R","R">> -> LOG_ERR
      [] tok = <<"W","A","R","N","I","N","G">> -> LOG_WARNING
      [] tok = <<"N","O","T","I","C","E">> -> LOG_NOTICE
      [] tok = <<>> -> LOG_INFO
      [] tok = <<"I","N","F","O">> -> LOG_INFO
      [] tok = <<"D","E","B","U","G">> -> LOG_DEBUG
      [] OTHER -> -1

\* log_level without lines 233-236: a string with no colon is left as it was
\* split, its one token read as the facility
log_level_NoSwap(level) ==
    LET up == ToUpper(level)
        sp0 == SplitN2(up)
        sp == IF Len(sp0) < 2 THEN <<sp0[1], <<>>>> ELSE sp0
        fac == FacilityOf(sp[1])
        sev == SeverityOf(sp[2])
    IN IF fac = -1 THEN 0
       ELSE IF sev = -1 THEN 0
       ELSE BitOr(fac, sev)

\* log_level with an unknown facility token read as the default facility
log_level_DefaultFacility(level) ==
    LET up == ToUpper(level)
        sp0 == SplitN2(up)
        sp == IF Len(sp0) < 2 THEN <<<<>>, sp0[1]>> ELSE sp0
        fac == FacilityOf(sp[1])
        sev == SeverityOf(sp[2])
    IN IF sev = -1 THEN 0
       ELSE BitOr(IF fac = -1 THEN LOG_LOCAL0 ELSE fac, sev)

log_level(level) ==
    LET up == ToUpper(level)
        sp0 == SplitN2(up)
        sp == IF Len(sp0) < 2 THEN <<<<>>, sp0[1]>> ELSE sp0
        fac == FacilityOf(sp[1])
        sev == SeverityOf(sp[2])
    IN IF fac = -1 THEN 0
       ELSE IF sev = -1 THEN 0
       ELSE BitOr(fac, sev)


(***************************************************************************)
(* Inputs.  A priority string is given as its facility token, its severity *)
(* token and whether it holds a colon; PriorityString builds the string    *)
(* New receives.                                                           *)
(***************************************************************************)
FacTokens == { <<>>, <<"k","e","r","n">>, <<"L","o","c","a","l","0">>,
               <<"k","e","r","n","e","l">> }
SevTokens == { <<>>, <<"e","m","e","r","g">>, <<"N","o","t","i","c","e">>,
               <<"d","e","b","u","g">>, <<"l","o","u","d">> }

PriorityString(fac, sev, colon) == IF colon THEN fac \o <<":">> \o sev ELSE sev

\* the (facility token, severity token, colon) triples New is tried on; a
\* string without a colon has no facility token
PriorityInputs ==
    { <<f, s, TRUE>> : f \in FacTokens, s \in SevTokens } \cup
    { <<(<<>>), s, FALSE>> : s \in SevTokens }

Filenames == { <<>>,
               <<"<","s","t","d","e","r","r",">">>,
               <<"<","s","y","s","l","o","g",">">>,
               <<"a",".","l","o","g">>,
               <<"u","d","p",":","/","/","h">>,
               <<"a","+","b">> }

Tags == { <<"s","v","c">>, <<"t">> }

Msgs == { <<"o","k">>, <<"o","k","\n">> }
SeverityMsgs == { <<"o","k">> }

Severities == { LOG_EMERG, LOG_ALERT, LOG_CRIT, LOG_ERR,
                LOG_WARNING, LOG_NOTICE, LOG_INFO, LOG_DEBUG }

\* arguments SetPriority is called with
SetPriorityArgs == { <<LOG_USER + LOG_WARNING, LOG_CRIT>>,
                     <<256 + LOG_LOCAL1 + LOG_DEBUG, LOG_DEBUG>> }

(***************************************************************************)
(* New and File (flog.go 81-129) as functions of their arguments and of    *)
(* what the environment answers: whether os.OpenFile, url.Parse and        *)
(* syslog.Dial succeed.  The result names the Writer returned, the error,  *)
(* the fields of the Flog built, and how many sinks were opened.           *)
(***************************************************************************)
NoFlog == [priority |-> 0, filter |-> 0, tag |-> <<>>, noclose |-> FALSE]

IsWord(c) == c \in Range(Lower) \cup Range(Upper) \cup Range(Digits) \cup {"_"}

\* regexp.MatchString(`^\w\+`, filename): a word character, then a literal +
MatchWordPlus(filename) ==
    Len(filename) >= 2 /\ IsWord(filename[1]) /\ filename[2] = "+"

Dial(priority, dialOK) ==
    IF dialOK
    THEN [w |-> "syslog", err |-> "nil", l |-> NoFlog, opened |-> 1]
    ELSE [w |-> "nilsyslog", err |-> "dial", l |-> NoFlog, opened |-> 0]

\* File with the filter left wide open instead of taken from the priority
File_FilterOpen(priority, tag, openOK) ==
    IF ~openOK
    THEN [w |-> "nil", err |-> "open", l |-> NoFlog, opened |-> 0]
    ELSE [w |-> "flog", err |-> "nil", opened |-> 1,
          l |-> [priority |-> priority,
                 filter |-> severityMask,
                 tag |-> tag,
                 noclose |-> FALSE]]

File(priority, tag, openOK) ==
    IF ~openOK
    THEN [w |-> "nil", err |-> "open", l |-> NoFlog, opened |-> 0]
    ELSE [w |-> "flog", err |-> "nil", opened |-> 1,
          l |-> [priority |-> priority,
                 filter |-> BitAnd(priority, severityMask),
                 tag |-> tag,
                 noclose |-> FALSE]]

New(filename, priority, tag, openOK, parseOK, dialOK) ==
    LET _p == log_level(priority) IN
    IF _p = 0
    THEN [w |-> "nil", err |-> "Priority Error", l |-> NoFlog, opened |-> 0]
    ELSE IF filename = <<>> \/ filename = <<"<","s","t","d","e","r","r",">">>
    THEN [w |-> "flog", err |-> "nil", opened |-> 0,
          l |-> [priority |-> _p,
                 filter |-> BitAnd(_p, severityMask),
                 tag |-> tag,
                 noclose |-> TRUE]]
    ELSE IF filename = <<"<","s","y","s","l","o","g",">">>
    THEN Dial(_p, dialOK)
    ELSE IF MatchWordPlus(filename)
    THEN IF ~parseOK
         THEN [w |-> "nil", err |-> "url", l |-> NoFlog, opened |-> 0]
         ELSE Dial(_p, dialOK)
    ELSE File(_p, tag, openOK)

(***************************************************************************)
(* The line Flog.write formats (flog.go 214-222).                          *)
(***************************************************************************)
Pid == 1234

TwoDigits(n) == <<Digits[(n \div 10) + 1], Digits[(n % 10) + 1]>>

\* time.Now().Format(time.Stamp), "Jan _2 15:04:05", for the t-th second of
\* January 1st
Stamp(t) ==
    <<"J","a","n"," "," ","1"," ">> \o TwoDigits(t \div 3600) \o <<":">> \o
    TwoDigits((t \div 60) % 60) \o <<":">> \o TwoDigits(t % 60)

\* fmt.Sprintf("<%d>%s %s[%d]: %s%s", p, t1, tag, pid, msg, nl)
FormatLine(p, t1, tag, pid, msg, nl) ==
    <<"<">> \o Itoa(p) \o <<">">> \o t1 \o <<" ">> \o tag \o
    <<"[">> \o Itoa(pid) \o <<"]",":"," ">> \o msg \o nl

(***************************************************************************)
(* State.                                                                  *)
(***************************************************************************)
VARIABLES
    phase,      \* "start" before New is called, "built" / "failed" after
    args,       \* the arguments New is called with, and the environment's answers
    ret,        \* what New returned: [w, err]
    opened,     \* how many sinks (files, daemon connections) were opened
    l,          \* the Flog: [priority, filter, tag, noclose]
    mu,         \* Flog.mu: 0 when free, else the goroutine holding it
    sinkLines,  \* what the sink l.w has received, one entry per Write it took
    sinkCloses, \* how many times the sink's own Close was called
    now,        \* the wall clock, in seconds
    tk,         \* the timestamp cache and its refreshers (SetTick)
    pc,         \* where each goroutine is in the method it called
    loc,        \* each goroutine's arguments, locals and results
    configs,    \* history: every (priority, filter) the Flog was configured with
    closes,     \* history: how many calls of Close got past line 150: returned
                \* nil (noclose), or took the mutex at line 154
    ncalls      \* history: how many method calls were made

vars == <<phase, args, ret, opened, l, mu, sinkLines, sinkCloses, now, tk,
          pc, loc, configs, closes, ncalls>>

newArgs == <<phase, args, ret, opened>>
sinkVars == <<sinkLines, sinkCloses>>
timeVars == <<now, tk>>
callVars == <<mu, pc, loc, configs, closes, ncalls>>

NoArgs == [fac |-> <<>>, sev |-> <<>>, colon |-> FALSE, filename |-> <<>>,
           tag |-> <<>>, openOK |-> FALSE, parseOK |-> FALSE, dialOK |-> FALSE]

\* the timestamp cache before SetTick: disabled, no refresher
NoTick == [interval |-> 0, running |-> FALSE, refreshers |-> 0, due |-> 0,
           cache |-> <<>>, setTicks |-> 0]

\* a goroutine is ready for a call before its first one and once a call has
\* returned; its frame keeps what the last call returned until the next call
Ready(g) == pc[g] \in {"idle", "returned"}

\* a goroutine's frame before its first call
Idle == [op |-> "none", p |-> 0, msg |-> <<>>, tp |-> 0, pr |-> 0,
         filter |-> 0, n |-> 0, err |-> "nil", writes |-> 0, sinkErr |-> "none",
         depth |-> 0,
         sawFilter |-> 0, sawPriority |-> 0, afterClose |-> FALSE]

Frame(g, op) == [Idle EXCEPT !.op = op, !.afterClose = closes > 0]

(***************************************************************************)
(* Construction: TryNew calls New on the arguments of args (SpecNew);      *)
(* Init is every state in which New has returned a Flog.                   *)
(***************************************************************************)
Built(r) ==
    /\ phase = "built"
    /\ ret = [w |-> r.w, err |-> r.err]
    /\ opened = r.opened
    /\ l = r.l
    /\ mu = 0
    /\ sinkLines = <<>>
    /\ sinkCloses = 0
    /\ now = 0
    /\ tk = NoTick
    /\ pc = [g \in Procs |-> "idle"]
    /\ loc = [g \in Procs |-> Idle]
    /\ configs = {<<r.l.priority, r.l.filter>>}
    /\ closes = 0
    /\ ncalls = 0

\* the constructions the write path is explored from: New("", "", "svc"), on
\* standard error, and New("a.log", "Local0:Notice", "svc"), on a file
InitArgs == { [filename |-> <<>>, fac |-> <<>>, sev |-> <<>>, colon |-> FALSE],
              [filename |-> <<"a",".","l","o","g">>,
               fac |-> <<"L","o","c","a","l","0">>,
               sev |-> <<"N","o","t","i","c","e">>, colon |-> TRUE] }
InitTag == <<"s","v","c">>

Init ==
    /\ args = NoArgs
    /\ \E a \in InitArgs :
         LET r == New(a.filename, PriorityString(a.fac, a.sev, a.colon), InitTag,
                      TRUE, TRUE, TRUE)
         IN r.w = "flog" /\ Built(r)

(***************************************************************************)
(* writeAndRetry (flog.go 200-212), entered by the severity methods        *)
(* (160-198) and by Write (145-147).                                       *)
(***************************************************************************)
\* the filter check with <= for <: a severity equal to the filter is dropped
FilterCheck_DropsEqual(g, f) ==
    LET tp == BitAnd(f.p, severityMask) IN
    IF l.filter <= tp
    THEN /\ pc' = [pc EXCEPT ![g] = "returned"]
         /\ loc' = [loc EXCEPT ![g] = [f EXCEPT !.tp = tp, !.sawFilter = l.filter,
                                                !.n = 0, !.err = "nil"]]
    ELSE /\ pc' = [pc EXCEPT ![g] = "readPriority"]
         /\ loc' = [loc EXCEPT ![g] = [f EXCEPT !.tp = tp, !.sawFilter = l.filter]]

\* the filter check with the comparison turned round: the less severe pass
FilterCheck_Inverted(g, f) ==
    LET tp == BitAnd(f.p, severityMask) IN
    IF l.filter > tp
    THEN /\ pc' = [pc EXCEPT ![g] = "returned"]
         /\ loc' = [loc EXCEPT ![g] = [f EXCEPT !.tp = tp, !.sawFilter = l.filter,
                                                !.n = 0, !.err = "nil"]]
    ELSE /\ pc' = [pc EXCEPT ![g] = "readPriority"]
         /\ loc' = [loc EXCEPT ![g] = [f EXCEPT !.tp = tp, !.sawFilter = l.filter]]

\* lines 201-204: the filter check, one read of w.filter
FilterCheck(g, f) ==
    LET tp == BitAnd(f.p, severityMask) IN
    IF l.filter < tp
    THEN /\ pc' = [pc EXCEPT ![g] = "returned"]
         /\ loc' = [loc EXCEPT ![g] = [f EXCEPT !.tp = tp, !.sawFilter = l.filter,
                                                !.n = 0, !.err = "nil"]]
    ELSE /\ pc' = [pc EXCEPT ![g] = "readPriority"]
         /\ loc' = [loc EXCEPT ![g] = [f EXCEPT !.tp = tp, !.sawFilter = l.filter]]

\* Emerg .. Debug: writeAndRetry(LOG_x, m) up to its filter check
Severity(g, sev, m) ==
    /\ Ready(g)
    /\ ncalls < MaxCalls
    /\ ncalls' = ncalls + 1
    /\ FilterCheck(g, [Frame(g, "Severity") EXCEPT !.p = sev, !.msg = m])
    /\ UNCHANGED <<newArgs, l, mu, sinkVars, timeVars, configs, closes>>

\* Write handing its bytes to the write path past the filter check
Write_Unfiltered(g, b) ==
    /\ Ready(g)
    /\ ncalls < MaxCalls
    /\ ncalls' = ncalls + 1
    /\ pc' = [pc EXCEPT ![g] = "readPriority"]
    /\ loc' = [loc EXCEPT ![g] = [Frame(g, "Write") EXCEPT
                                      !.p = l.priority, !.msg = b,
                                      !.tp = BitAnd(l.priority, severityMask),
                                      !.sawFilter = l.filter]]
    /\ UNCHANGED <<newArgs, l, mu, sinkVars, timeVars, configs, closes>>

\* Write(b): the argument w.priority is read before writeAndRetry is entered
Write(g, b) ==
    /\ Ready(g)
    /\ ncalls < MaxCalls
    /\ ncalls' = ncalls + 1
    /\ pc' = [pc EXCEPT ![g] = "checkFilter"]
    /\ loc' = [loc EXCEPT ![g] = [Frame(g, "Write") EXCEPT !.p = l.priority, !.msg = b]]
    /\ UNCHANGED <<newArgs, l, mu, sinkVars, timeVars, configs, closes>>

CheckFilter(g) ==
    /\ pc[g] = "checkFilter"
    /\ FilterCheck(g, loc[g])
    /\ UNCHANGED <<newArgs, l, mu, sinkVars, timeVars, configs, closes, ncalls>>

\* line 206 without the facility mask
OutgoingPriority_NoMask(priority, tp) == BitOr(priority, tp)

\* line 206 with the severity mask where the facility mask belongs
OutgoingPriority_WrongMask(priority, tp) == BitOr(BitAnd(priority, severityMask), tp)

\* line 206: pr := (w.priority & facilityMask) | tp, one read of w.priority
OutgoingPriority(priority, tp) == BitOr(BitAnd(priority, facilityMask), tp)

ReadPriority(g) ==
    /\ pc[g] = "readPriority"
    /\ pc' = [pc EXCEPT ![g] = "lock"]
    /\ loc' = [loc EXCEPT ![g].pr = OutgoingPriority(l.priority, loc[g].tp),
                          ![g].sawPriority = l.priority]
    /\ UNCHANGED <<newArgs, l, mu, sinkVars, timeVars, configs, closes, ncalls>>

\* a Lock that never waits
CanLock_Always(g) == TRUE

\* line 208: w.mu.Lock()
CanLock(g) == mu = 0

Lock(g) ==
    /\ pc[g] = "lock"
    /\ CanLock(g)
    /\ mu' = g
    /\ pc' = [pc EXCEPT ![g] = "write"]
    /\ UNCHANGED <<newArgs, l, sinkVars, timeVars, loc, configs, closes, ncalls>>

\* a failed write tried again, as the method's name promises
DoWrite_Retry(g, ok) ==
    /\ pc[g] = "write"
    /\ ok => sinkCloses = 0
    /\ LET msg == loc[g].msg
           nl == IF ~HasSuffixNL(msg) THEN <<"\n">> ELSE <<>>
           t1 == Stamp(now)
           line == FormatLine(loc[g].pr, t1, l.tag, Pid, msg, nl)
       IN IF ok
          THEN /\ sinkLines' = Append(sinkLines, line)
               /\ loc' = [loc EXCEPT ![g].n = Len(msg), ![g].err = "nil",
                                     ![g].sinkErr = "nil", ![g].writes = @ + 1]
          ELSE /\ sinkLines' = sinkLines
               /\ loc' = [loc EXCEPT ![g].n = 0, ![g].err = "io",
                                     ![g].sinkErr = "io", ![g].writes = @ + 1]
    /\ pc' = [pc EXCEPT ![g] = IF ok \/ loc[g].writes >= 1 THEN "unlock" ELSE "write"]
    /\ UNCHANGED <<newArgs, l, mu, sinkCloses, timeVars, configs, closes, ncalls>>

\* write returning what Fprintf counted, the bytes of the whole line
DoWrite_ReturnsLineLength(g, ok) ==
    /\ pc[g] = "write"
    /\ ok => sinkCloses = 0
    /\ LET msg == loc[g].msg
           nl == IF ~HasSuffixNL(msg) THEN <<"\n">> ELSE <<>>
           t1 == Stamp(now)
           line == FormatLine(loc[g].pr, t1, l.tag, Pid, msg, nl)
       IN IF ok
          THEN /\ sinkLines' = Append(sinkLines, line)
               /\ loc' = [loc EXCEPT ![g].n = Len(line), ![g].err = "nil",
                                     ![g].sinkErr = "nil", ![g].writes = @ + 1]
          ELSE /\ sinkLines' = sinkLines
               /\ loc' = [loc EXCEPT ![g].n = 0, ![g].err = "io",
                                     ![g].sinkErr = "io", ![g].writes = @ + 1]
    /\ pc' = [pc EXCEPT ![g] = "unlock"]
    /\ UNCHANGED <<newArgs, l, mu, sinkCloses, timeVars, configs, closes, ncalls>>

\* line 211 and write (214-228): format one line and hand it to the sink,
\* which takes it (ok) or fails the write; a closed sink fails every write
DoWrite(g, ok) ==
    /\ pc[g] = "write"
    /\ ok => sinkCloses = 0
    /\ LET msg == loc[g].msg
           nl == IF ~HasSuffixNL(msg) THEN <<"\n">> ELSE <<>>
           t1 == Stamp(now)
           line == FormatLine(loc[g].pr, t1, l.tag, Pid, msg, nl)
       IN IF ok
          THEN /\ sinkLines' = Append(sinkLines, line)
               /\ loc' = [loc EXCEPT ![g].n = Len(msg), ![g].err = "nil",
                                     ![g].sinkErr = "nil", ![g].writes = @ + 1]
          ELSE /\ sinkLines' = sinkLines
               /\ loc' = [loc EXCEPT ![g].n = 0, ![g].err = "io",
                                     ![g].sinkErr = "io", ![g].writes = @ + 1]
    /\ pc' = [pc EXCEPT ![g] = "unlock"]
    /\ UNCHANGED <<newArgs, l, mu, sinkCloses, timeVars, configs, closes, ncalls>>

\* line 209: the deferred w.mu.Unlock(), then the return
Unlock(g) ==
    /\ pc[g] = "unlock"
    /\ mu' = 0
    /\ pc' = [pc EXCEPT ![g] = "returned"]
    /\ UNCHANGED <<newArgs, l, sinkVars, timeVars, loc, configs, closes, ncalls>>

(***************************************************************************)
(* SetTag and SetPriority (flog.go 136-143): plain stores, no lock.        *)
(***************************************************************************)
SetTag(g, tag) ==
    /\ Ready(g)
    /\ ncalls < MaxCalls
    /\ ncalls' = ncalls + 1
    /\ l' = [l EXCEPT !.tag = tag]
    /\ pc' = [pc EXCEPT ![g] = "returned"]
    /\ loc' = [loc EXCEPT ![g] = Frame(g, "SetTag")]
    /\ UNCHANGED <<newArgs, mu, sinkVars, timeVars, configs, closes>>

\* line 141: w.priority = priority
SetPriority(g, priority, filter) ==
    /\ Ready(g)
    /\ ncalls < MaxCalls
    /\ ncalls' = ncalls + 1
    /\ l' = [l EXCEPT !.priority = priority]
    /\ pc' = [pc EXCEPT ![g] = "setFilter"]
    /\ loc' = [loc EXCEPT ![g] = [Frame(g, "SetPriority") EXCEPT !.p = priority,
                                                                 !.filter = filter]]
    /\ configs' = configs \cup {<<priority, filter>>}
    /\ UNCHANGED <<newArgs, mu, sinkVars, timeVars, closes>>

\* line 142: w.filter = filter
SetFilter(g) ==
    /\ pc[g] = "setFilter"
    /\ l' = [l EXCEPT !.filter = loc[g].filter]
    /\ pc' = [pc EXCEPT ![g] = "returned"]
    /\ UNCHANGED <<newArgs, mu, sinkVars, timeVars, loc, configs, closes, ncalls>>

(***************************************************************************)
(* Close (flog.go 149-158).                                                *)
(***************************************************************************)
\* Close without the noclose test of lines 150-152
Close_NoCheck(g) ==
    /\ Ready(g)
    /\ ncalls < MaxCalls
    /\ ncalls' = ncalls + 1
    /\ closes' = closes
    /\ loc' = [loc EXCEPT ![g] = Frame(g, "Close")]
    /\ pc' = [pc EXCEPT ![g] = "closeLock"]
    /\ UNCHANGED <<newArgs, l, mu, sinkVars, timeVars, configs>>

\* lines 150-152, for a call from outside
Close(g) ==
    /\ Ready(g)
    /\ ncalls < MaxCalls
    /\ ncalls' = ncalls + 1
    /\ closes' = IF l.noclose THEN closes + 1 ELSE closes
    /\ loc' = [loc EXCEPT ![g] = Frame(g, "Close")]
    /\ pc' = [pc EXCEPT ![g] = IF l.noclose THEN "returned" ELSE "closeLock"]
    /\ UNCHANGED <<newArgs, l, mu, sinkVars, timeVars, configs>>

\* line 154: w.mu.Lock()
CloseLock(g) ==
    /\ pc[g] = "closeLock"
    /\ CanLock(g)
    /\ mu' = g
    /\ pc' = [pc EXCEPT ![g] = "closeBody"]
    /\ closes' = closes + 1
    /\ UNCHANGED <<newArgs, l, sinkVars, timeVars, loc, configs, ncalls>>

\* line 157: return w.Close(), the method calling itself with the mutex held.
\* noclose is false here (line 150 of the outer call) and nothing assigns it,
\* so the inner call goes on to line 154, where the mutex is the caller's own:
\* no inner call returns, and the deferred Unlock and the outer return are
\* never run.
CloseBody(g) ==
    /\ pc[g] = "closeBody"
    /\ ~l.noclose
    /\ loc' = [loc EXCEPT ![g].depth = @ + 1]
    /\ pc' = [pc EXCEPT ![g] = "closeLock"]
    /\ UNCHANGED <<newArgs, l, mu, sinkVars, timeVars, configs, closes, ncalls>>

(***************************************************************************)
(* SpecNew: New as a function of its arguments.  InitNew draws the         *)
(* arguments and the environment's answers; TryNew is the call.            *)
(***************************************************************************)
InitNew ==
    /\ phase = "start"
    /\ \E in \in PriorityInputs, f \in Filenames, t \in Tags,
          openOK \in BOOLEAN, parseOK \in BOOLEAN, dialOK \in BOOLEAN :
         args = [fac |-> in[1], sev |-> in[2], colon |-> in[3], filename |-> f,
                 tag |-> t, openOK |-> openOK, parseOK |-> parseOK, dialOK |-> dialOK]
    /\ ret = [w |-> "none", err |-> "none"]
    /\ opened = 0
    /\ l = NoFlog
    /\ mu = 0
    /\ sinkLines = <<>>
    /\ sinkCloses = 0
    /\ now = 0
    /\ tk = NoTick
    /\ pc = [g \in Procs |-> "idle"]
    /\ loc = [g \in Procs |-> Idle]
    /\ configs = {}
    /\ closes = 0
    /\ ncalls = 0

TryNew ==
    /\ phase = "start"
    /\ LET r == New(args.filename, PriorityString(args.fac, args.sev, args.colon),
                    args.tag, args.openOK, args.parseOK, args.dialOK)
       IN /\ phase' = IF r.err = "nil" THEN "built" ELSE "failed"
          /\ ret' = [w |-> r.w, err |-> r.err]
          /\ opened' = r.opened
          /\ l' = r.l
          /\ configs' = IF r.w = "flog" THEN {<<r.l.priority, r.l.filter>>} ELSE {}
    /\ UNCHANGED <<args, mu, sinkVars, timeVars, pc, loc, closes, ncalls>>

NextNew == TryNew

SpecNew == InitNew /\ [][NextNew]_vars

(***************************************************************************)
(* SpecTick: the timestamp cache.  SetTick is not in flog.go; it is taken  *)
(* from the design's account of it (sections 4.4 and 9) and from the note  *)
(* in flog_test.go 16-19: each SetTick(d > 0) stops the previous ticker    *)
(* and starts a goroutine ranging over the new ticker's channel; a stopped *)
(* ticker's channel is never closed, so the goroutine that ranged over it  *)
(* stays, blocked for ever.                                                *)
(***************************************************************************)
TickIntervals == { -1, 0, 1, 2 }

SetTick(d) ==
    /\ tk.setTicks < MaxSetTicks
    /\ tk' = IF d > 0
             THEN [interval |-> d, running |-> TRUE,
                   refreshers |-> tk.refreshers + 1, due |-> now + d,
                   cache |-> Stamp(now), setTicks |-> tk.setTicks + 1]
             ELSE [tk EXCEPT !.interval = 0, !.running = FALSE, !.due = 0,
                             !.cache = <<>>, !.setTicks = @ + 1]
    /\ UNCHANGED <<newArgs, l, sinkVars, now, callVars>>

\* the running ticker fires: its goroutine stores the formatted time
Refresh ==
    /\ tk.running
    /\ now >= tk.due
    /\ tk' = [tk EXCEPT !.cache = Stamp(now), !.due = @ + tk.interval]
    /\ UNCHANGED <<newArgs, l, sinkVars, now, callVars>>

ClockTick ==
    /\ now < MaxTime
    /\ now' = now + 1
    /\ UNCHANGED <<newArgs, l, sinkVars, tk, callVars>>

NextTick ==
    \/ \E d \in TickIntervals : SetTick(d)
    \/ Refresh
    \/ ClockTick

SpecTick == Init /\ [][NextTick]_vars

Next ==
    \E g \in Procs :
         \/ \E sev \in Severities, m \in SeverityMsgs : Severity(g, sev, m)
         \/ \E b \in Msgs : Write(g, b)
         \/ CheckFilter(g)
         \/ ReadPriority(g)
         \/ Lock(g)
         \/ \E ok \in BOOLEAN : DoWrite(g, ok)
         \/ Unlock(g)
         \/ \E t \in Tags : SetTag(g, t)
         \/ \E a \in SetPriorityArgs : SetPriority(g, a[1], a[2])
         \/ SetFilter(g)
         \/ Close(g)
         \/ CloseLock(g)
         \/ CloseBody(g)

Spec == Init /\ [][Next]_vars

(***************************************************************************)
(* Properties.                                                             *)
(***************************************************************************)
StartsWith(s, pre) == Len(s) >= Len(pre) /\ SubSeq(s, 1, Len(pre)) = pre
EndsWith(s, suf) == Len(s) >= Len(suf) /\ SubSeq(s, Len(s) - Len(suf) + 1, Len(s)) = suf
Last(s) == s[Len(s)]

\* the goroutine is in a severity method that passed the filter it read
Permitted(g) == loc[g].op = "Severity" /\ loc[g].p <= loc[g].sawFilter

\* C1: a severity method whose severity is at most the filter it found makes
\* exactly one write to the sink: never more than one, and exactly one once it
\* has the write behind it; when the sink takes the write, the call's line is
\* the sink's last and the call returns a nil error.
C1_PermittedCallWritesOneLine ==
    \A g \in Procs :
        Permitted(g) =>
            /\ loc[g].writes <= 1
            /\ pc[g] \in {"unlock", "returned"} => loc[g].writes = 1
            /\ (pc[g] \in {"unlock", "returned"} /\ loc[g].sinkErr = "nil") =>
                   loc[g].err = "nil"
            /\ (pc[g] = "unlock" /\ loc[g].sinkErr = "nil") =>
                   /\ Len(sinkLines) >= 1
                   /\ EndsWith(Last(sinkLines),
                               IF Last(loc[g].msg) = "\n"
                               THEN <<" ">> \o loc[g].msg
                               ELSE <<" ">> \o loc[g].msg \o <<"\n">>)

C1_Witness ==
    \E g \in Procs :
        /\ Permitted(g)
        /\ pc[g] = "returned"
        /\ loc[g].writes = 1
        /\ loc[g].sinkErr = "nil"
        /\ loc[g].err = "nil"
        /\ Len(sinkLines) = 1

\* C2: a step in which a severity method is called with a severity greater
\* than the Flog's filter is the whole call: it returns a nil error, makes no
\* write, and leaves the Flog's fields, its mutex and the sink as they were.
C2_FilteredCallIsNoOp ==
    [][\A g \in Procs, sev \in Severities, m \in SeverityMsgs :
         (ncalls' # ncalls /\ sev > l.filter /\ Severity(g, sev, m)) =>
             /\ pc'[g] = "returned"
             /\ loc'[g].err = "nil"
             /\ loc'[g].n = 0
             /\ loc'[g].writes = 0
             /\ UNCHANGED <<l, mu, sinkLines, sinkCloses>>]_vars

C2_Witness ==
    \E g \in Procs :
        /\ loc[g].op = "Severity"
        /\ loc[g].p > loc[g].sawFilter
        /\ pc[g] = "returned"
        /\ loc[g].err = "nil"
        /\ sinkLines = <<>>

\* the encoded priority C3 expects, by arithmetic: bits 3..7 of the
\* configured priority, bits 0..2 of the severity
ExpectedPriority(priority, sev) == ((priority % 256) - (priority % 8)) + (sev % 8)

\* C3: the priority a severity method writes is (configured priority & 0xF8)
\* | (method severity & 0x07), for a priority the Flog was configured with by
\* New or by a SetPriority call: the line just written starts with it in
\* decimal, between < and >.
C3_EmittedPriority ==
    \A g \in Procs :
        (loc[g].op = "Severity" /\ pc[g] \in {"lock", "write", "unlock"}) =>
            /\ \E c \in configs : loc[g].sawPriority = c[1]
            /\ loc[g].pr = ExpectedPriority(loc[g].sawPriority, loc[g].p)
            /\ (pc[g] = "unlock" /\ loc[g].err = "nil") =>
                   StartsWith(Last(sinkLines),
                              <<"<">> \o Itoa(ExpectedPriority(loc[g].sawPriority, loc[g].p))
                                      \o <<">">>)

\* a severity method has written its line after a SetPriority call that
\* changed the facility
C3_Witness ==
    \E g \in Procs :
        /\ loc[g].op = "Severity"
        /\ pc[g] = "unlock"
        /\ loc[g].err = "nil"
        /\ Cardinality(configs) = 2
        /\ loc[g].sawPriority = 256 + LOG_LOCAL1 + LOG_DEBUG
        /\ loc[g].p = LOG_NOTICE

\* the goroutine is between w.mu.Lock() and the deferred Unlock of writeAndRetry
InWrite(g) == pc[g] \in {"write", "unlock"}

\* one whole line: <digits> first, one newline, at the end
WholeLine(s) ==
    /\ Len(s) >= 4
    /\ s[1] = "<"
    /\ s[Len(s)] = "\n"
    /\ \A i \in 2..Len(s) : s[i] # "<"
    /\ \A i \in 1..(Len(s) - 1) : s[i] # "\n"

\* C4: at most one goroutine is in the format-and-write step, and it holds
\* the mutex; everything the sink has received is whole lines.
C4_OneWriterAtATime ==
    /\ Cardinality({g \in Procs : InWrite(g)}) <= 1
    /\ \A g \in Procs : InWrite(g) => mu = g
    /\ \A i \in 1..Len(sinkLines) : WholeLine(sinkLines[i])

\* one goroutine is writing while another waits for the mutex, Write and a
\* severity method among them
C4_Witness ==
    \E g, h \in Procs :
        /\ pc[g] = "write"
        /\ pc[h] = "lock"
        /\ loc[g].op = "Write"
        /\ loc[h].op = "Severity"
        /\ mu = g

\* C5: a call that passed the filter and the facility it writes agree with
\* one configuration of the Flog, New's or a SetPriority call's: some (p, f)
\* the Flog was configured with admits the call's severity under f and gives
\* the call's outgoing priority its facility from p.
C5_ConfigNotTorn ==
    \A g \in Procs :
        (loc[g].op \in {"Severity", "Write"} /\ pc[g] \in {"lock", "write", "unlock"}) =>
            \E c \in configs :
                /\ loc[g].tp <= c[2]
                /\ loc[g].pr = ExpectedPriority(c[1], loc[g].tp)

\* a Close on a Flog that owns its sink waits for the mutex it holds itself
SelfDeadlocked(g) == loc[g].op = "Close" /\ pc[g] = "closeLock" /\ mu = g

\* C6: Close on a Flog that owns its sink does not call Flog.Close again, does
\* not wait for the mutex it holds, and has called the sink's Close exactly
\* once when it returns.
C6_CloseReleasesSink ==
    \A g \in Procs :
        (loc[g].op = "Close" /\ ~l.noclose) =>
            /\ loc[g].depth = 0
            /\ ~SelfDeadlocked(g)
            /\ pc[g] = "returned" => sinkCloses = 1

\* the goroutine waits for a mutex whose holder waits for it too, for ever
Hung(g) ==
    /\ pc[g] \in {"lock", "closeLock"}
    /\ mu \in Procs
    /\ SelfDeadlocked(mu)

\* C7: on a Flog that owns its sink, a Close, a Write or a severity method
\* that passes the filter, called after a Close, does not hang and returns a
\* non-nil error.
C7_MisuseReported ==
    \A g \in Procs :
        ( /\ ~l.noclose
          /\ loc[g].afterClose
          /\ \/ loc[g].op = "Close"
             \/ loc[g].op \in {"Severity", "Write"} /\ pc[g] # "checkFilter"
                  /\ loc[g].tp <= loc[g].sawFilter ) =>
            /\ ~Hung(g)
            /\ pc[g] = "returned" => loc[g].err # "nil"

\* C8: no sequence of SetTick calls leaves more than one refresher goroutine.
C8_AtMostOneRefresher == tk.refreshers <= 1

\* the tokens of the inputs that the priority vocabulary knows (names in any
\* letter case, and the empty token), with what each stands for
KnownFacility(tok) ==
    CASE tok = <<>> -> 16 * 8
      [] tok = <<"L","o","c","a","l","0">> -> 16 * 8
      [] tok = <<"k","e","r","n">> -> 0
      [] OTHER -> -1

KnownSeverity(tok) ==
    CASE tok = <<>> -> 6
      [] tok = <<"e","m","e","r","g">> -> 0
      [] tok = <<"N","o","t","i","c","e">> -> 5
      [] tok = <<"d","e","b","u","g">> -> 7
      [] OTHER -> -1

\* C9: New on a priority string with an unknown facility token or an unknown
\* severity token returns an error and no Writer, and has opened no sink.
C9_BadPriorityRejected ==
    (phase # "start" /\ (KnownFacility(args.fac) = -1 \/ KnownSeverity(args.sev) = -1)) =>
        /\ phase = "failed"
        /\ ret = [w |-> "nil", err |-> "Priority Error"]
        /\ opened = 0
        /\ l = NoFlog

\* New has refused a string with an unknown token where the file named would
\* have opened
C9_Witness ==
    /\ phase = "failed"
    /\ KnownFacility(args.fac) = -1
    /\ KnownSeverity(args.sev) # -1
    /\ args.filename = <<"a",".","l","o","g">>
    /\ args.openOK
    /\ ret.err = "Priority Error"

\* C10: New accepts every priority string whose tokens are both known: it
\* does not answer "Priority Error", and a Flog it builds has that priority.
C10_ValidPriorityAccepted ==
    (phase # "start" /\ KnownFacility(args.fac) # -1 /\ KnownSeverity(args.sev) # -1) =>
        /\ ret.err # "Priority Error"
        /\ ret.w = "flog" => l.priority = KnownFacility(args.fac) + KnownSeverity(args.sev)

\* no SetPriority call has been made: the Flog has New's configuration only
NeverReconfigured ==
    /\ Cardinality(configs) = 1
    /\ \A g \in Procs : loc[g].op # "SetPriority"

\* C11: from construction until SetPriority is called the filter is the
\* severity part of the initial priority (priority mod 8), whichever
\* constructor built the Flog; so on the Flog built from "Local0:Notice" a
\* severity method for Info or Debug returns without a write, and one for
\* Notice or a more severe level goes on to the sink.
C11_InitialFilter ==
    NeverReconfigured =>
        /\ l.filter = l.priority % 8
        /\ \A g \in Procs :
             (loc[g].op = "Severity" /\ l.priority = 16 * 8 + 5) =>
                 /\ loc[g].p \in {6, 7} =>
                        pc[g] = "returned" /\ loc[g].writes = 0 /\ loc[g].n = 0
                 /\ loc[g].p <= 5 =>
                        /\ pc[g] \in {"readPriority", "lock", "write", "unlock", "returned"}
                        /\ pc[g] \in {"unlock", "returned"} => loc[g].writes = 1

\* on the Flog built from "Local0:Notice", never reconfigured, an Info call
\* has returned without a write and a Notice call has written its line
C11_Witness ==
    /\ NeverReconfigured
    /\ l.priority = 16 * 8 + 5
    /\ l.filter = 5
    /\ \E g, h \in Procs :
         /\ loc[g].op = "Severity" /\ loc[g].p = 6
         /\ pc[g] = "returned" /\ loc[g].writes = 0
         /\ loc[h].op = "Severity" /\ loc[h].p = 5
         /\ pc[h] = "returned" /\ loc[h].writes = 1 /\ loc[h].sinkErr = "nil"
         /\ Len(sinkLines) = 1

\* SetPriority has been called and every call of it has returned
SetPriorityReturned ==
    /\ Cardinality(configs) > 1
    /\ \A g \in Procs : pc[g] # "setFilter"

\* C12: once SetPriority has returned and no call of it is under way, every
\* severity method starting now is filtered against the f and carries the
\* facility of the p of one SetPriority(p, f) call: it is never filtered
\* against one call's filter while carrying another call's facility.
C12_SetPriorityInForce ==
    SetPriorityReturned =>
        \E a \in SetPriorityArgs :
            \A sev \in Severities :
                /\ (l.filter < sev) <=> (a[2] < sev)
                /\ OutgoingPriority(l.priority, sev) = ExpectedPriority(a[1], sev)

\* the Info method (writeAndRetry(LOG_INFO, m)) has had its line taken by the
\* sink, on a Flog whose priority it read with facility Local0
InfoOnLocal0(g) ==
    /\ loc[g].op = "Severity"
    /\ loc[g].p = LOG_INFO
    /\ BitAnd(loc[g].sawPriority, facilityMask) = LOG_LOCAL0
    /\ pc[g] = "unlock"
    /\ loc[g].sinkErr = "nil"

\* C13, as stated: Info on facility Local0 writes a line starting <23>, Info
\* being severity 7 and Local0 being 16.
C13_InfoOnLocal0Is23 ==
    \A g \in Procs :
        InfoOnLocal0(g) =>
            /\ loc[g].tp = 7
            /\ loc[g].pr - loc[g].tp = 16
            /\ StartsWith(Last(sinkLines), <<"<","2","3",">">>)

\* C13, amended: Info on facility Local0 writes a line starting <134>, Info
\* being severity 6 and Local0 being 128, sixteen shifted left by three bits
\* (134 = 128 | 6).
C13_InfoOnLocal0Is134 ==
    \A g \in Procs :
        InfoOnLocal0(g) =>
            /\ loc[g].tp = 6
            /\ loc[g].pr - loc[g].tp = 128
            /\ StartsWith(Last(sinkLines), <<"<","1","3","4",">">>)

\* Info("ok") on the Flog of New("", "", "svc") has written its line, the
\* first the sink received
C13_Witness ==
    \E g \in Procs :
        /\ InfoOnLocal0(g)
        /\ l.noclose
        /\ sinkLines = << <<"<","1","3","4",">">> \o Stamp(0) \o
                          <<" ","s","v","c","[","1","2","3","4","]",":"," ","o","k","\n">> >>

\* C14: the count Write(b) returns is len(b), the message body and not the
\* line written, when the sink took the line; it is 0 when the sink failed
\* the write and 0 when the filter dropped the message.
C14_WriteCount ==
    \A g \in Procs :
        (loc[g].op = "Write" /\ pc[g] \in {"unlock", "returned"}) =>
            /\ loc[g].sinkErr = "nil" =>
                   /\ loc[g].n = Len(loc[g].msg)
                   /\ loc[g].err = "nil"
                   /\ pc[g] = "unlock" => loc[g].n < Len(Last(sinkLines))
            /\ loc[g].sinkErr = "io" => loc[g].n = 0 /\ loc[g].err = "io"
            /\ loc[g].writes = 0 => loc[g].n = 0 /\ loc[g].err = "nil"

\* one Write has returned the three bytes of "ok\n", another has returned 0
\* from a failed write
C14_Witness ==
    \E g, h \in Procs :
        /\ loc[g].op = "Write" /\ pc[g] = "returned"
        /\ loc[g].msg = <<"o","k","\n">> /\ loc[g].n = 3 /\ loc[g].sinkErr = "nil"
        /\ loc[h].op = "Write" /\ pc[h] = "returned"
        /\ loc[h].sinkErr = "io" /\ loc[h].n = 0
        /\ Len(sinkLines) = 1

\* the goroutines whose call had its write failed by the sink
FailedCalls == {g \in Procs : loc[g].sinkErr = "io"}

\* C15: a severity method whose write the sink failed returns the sink's
\* error and no count, has made that one write and no second one, and has
\* put nothing in the sink: the sink holds at most one line for each call
\* that did not fail.
C15_SinkErrorReturned ==
    /\ \A g \in Procs :
         (loc[g].op = "Severity" /\ loc[g].sinkErr = "io") =>
             /\ pc[g] \in {"unlock", "returned"}
             /\ loc[g].err = loc[g].sinkErr
             /\ loc[g].n = 0
             /\ loc[g].writes = 1
    /\ Len(sinkLines) + Cardinality(FailedCalls) <= ncalls

\* a severity method has returned the error of a failed write while the
\* other goroutine's call went through
C15_Witness ==
    \E g, h \in Procs :
        /\ loc[g].op = "Severity" /\ pc[g] = "returned"
        /\ loc[g].sinkErr = "io" /\ loc[g].err = "io" /\ loc[g].writes = 1
        /\ loc[h].op = "Severity" /\ pc[h] = "returned" /\ loc[h].sinkErr = "nil"
        /\ Len(sinkLines) = 1

\* C16: the write mutex is released on every exit path of a write, and no
\* severity method or Write is left waiting for it for ever: a goroutine that
\* has returned from a write, failed or not, does not hold the mutex, and a
\* writer waiting at w.mu.Lock() does not wait for a holder that never
\* releases.
C16_WritersProceed ==
    \A g \in Procs :
        loc[g].op \in {"Severity", "Write"} =>
            /\ pc[g] = "returned" => mu # g
            /\ ~Hung(g)

\* C17: SetTag's store to the tag is never made while a writer holds the
\* write mutex and is about to format its line with the tag.
C17_SetTagSynchronised ==
    [][\A g \in Procs, t \in Tags :
         (ncalls' # ncalls /\ SetTag(g, t)) =>
             ~ \E h \in Procs : pc[h] = "write" /\ mu = h]_vars

\* New was called for a Flog on standard error
OnStderr == args.filename \in { <<>>, <<"<","s","t","d","e","r","r",">">> }

\* C18: the priority string is parsed with its defaults applied on each side
\* by itself: an empty facility token is local0 (128), an empty severity token
\* is info (6), a string with no colon is a severity on local0, and the
\* tokens are matched in any letter case; New builds the Flog with that
\* priority and its severity as the filter, whenever the priority parsed is
\* not the 0 that New reads as a failed parse.  So New("", "", tag) gives
\* priority local0|info, 134, whose filter passes Info and stops Debug.
C18_ParsingDefaults ==
    /\ ( /\ phase # "start"
         /\ OnStderr
         /\ KnownFacility(args.fac) # -1
         /\ KnownSeverity(args.sev) # -1
         /\ KnownFacility(args.fac) + KnownSeverity(args.sev) # 0 ) =>
           /\ ret = [w |-> "flog", err |-> "nil"]
           /\ l.priority = KnownFacility(args.fac) + KnownSeverity(args.sev)
           /\ l.filter = KnownSeverity(args.sev)
           /\ args.fac = <<>> => l.priority - l.filter = 128
           /\ args.sev = <<>> => l.filter = 6
    /\ ( /\ phase # "start"
         /\ OnStderr
         /\ args.fac = <<>>
         /\ args.sev = <<>> ) =>
           /\ l.priority = 134
           /\ ~(l.filter < LOG_INFO)
           /\ l.filter < LOG_DEBUG

\* New("", "", tag) has returned its Flog
C18_Witness ==
    /\ phase = "built"
    /\ args.filename = <<>>
    /\ args.fac = <<>>
    /\ args.sev = <<>>
    /\ ~args.colon
    /\ ret.w = "flog"
    /\ l.priority = 134
    /\ l.filter = 6
    /\ l.noclose

\* C19: Write(b) goes through the filter check of the severity methods, with
\* the severity of the Flog's priority p as Write read it, a priority the
\* Flog was configured with.  When the filter it finds is below p mod 8 it
\* returns (0, nil) and has written nothing; otherwise it goes on to one
\* write, of a line whose priority has the severity of p and, when the
\* priority is still p where the line is put together, is p mod 256.
C19_WriteFiltered ==
    \A g \in Procs :
        (loc[g].op = "Write" /\ pc[g] # "checkFilter") =>
            /\ \E c \in configs : loc[g].p = c[1]
            /\ loc[g].sawFilter < loc[g].p % 8 =>
                   /\ pc[g] = "returned"
                   /\ loc[g].n = 0
                   /\ loc[g].err = "nil"
                   /\ loc[g].writes = 0
            /\ loc[g].p % 8 <= loc[g].sawFilter =>
                   /\ pc[g] \in {"readPriority", "lock", "write", "unlock", "returned"}
                   /\ loc[g].writes <= 1
                   /\ pc[g] \in {"unlock", "returned"} => loc[g].writes = 1
                   /\ pc[g] \in {"lock", "write", "unlock"} =>
                          /\ loc[g].pr % 8 = loc[g].p % 8
                          /\ loc[g].sawPriority = loc[g].p => loc[g].pr = loc[g].p % 256
                   /\ (pc[g] = "unlock" /\ loc[g].sinkErr = "nil"
                         /\ loc[g].sawPriority = loc[g].p) =>
                          StartsWith(Last(sinkLines),
                                     <<"<">> \o Itoa(loc[g].p % 256) \o <<">">>)

\* SetPriority(LOG_USER|LOG_WARNING, LOG_CRIT) has returned and a Write made
\* after it has returned (0, nil), the sink still empty
C19_Witness ==
    \E g, h \in Procs :
        /\ loc[h].op = "SetPriority" /\ pc[h] = "returned"
        /\ l.priority = LOG_USER + LOG_WARNING /\ l.filter = LOG_CRIT
        /\ loc[g].op = "Write" /\ pc[g] = "returned"
        /\ loc[g].p = LOG_USER + LOG_WARNING /\ loc[g].sawFilter = LOG_CRIT
        /\ loc[g].n = 0 /\ loc[g].err = "nil" /\ loc[g].writes = 0
        /\ sinkLines = <<>>

\* C20: on the Flog New binds to standard error, Close is over at once: it
\* has returned nil, without the mutex and without calling itself, however
\* many calls of it were made, and the stream is never closed; a severity
\* method called after a Close that passes the filter is not kept from the
\* mutex and makes its write, its line the sink's last when the sink took it.
C20_StderrCloseIsNoOp ==
    l.noclose =>
        /\ sinkCloses = 0
        /\ \A g \in Procs :
             /\ loc[g].op = "Close" =>
                    /\ pc[g] = "returned"
                    /\ loc[g].err = "nil"
                    /\ loc[g].depth = 0
                    /\ mu # g
             /\ (Permitted(g) /\ loc[g].afterClose) =>
                    /\ ~Hung(g)
                    /\ mu # 0 => InWrite(mu)
                    /\ pc[g] \in {"unlock", "returned"} => loc[g].writes = 1
                    /\ (pc[g] = "unlock" /\ loc[g].sinkErr = "nil") =>
                           EndsWith(Last(sinkLines), <<" ">> \o loc[g].msg \o <<"\n">>)

\* Close has returned on the standard-error Flog and a severity method called
\* after it has had its line taken by the sink
C20_Witness ==
    /\ l.noclose
    /\ closes = 1
    /\ sinkCloses = 0
    /\ \E g, h \in Procs :
         /\ loc[h].op = "Close" /\ pc[h] = "returned" /\ loc[h].err = "nil"
         /\ loc[g].op = "Severity" /\ loc[g].afterClose
         /\ pc[g] = "returned" /\ loc[g].writes = 1 /\ loc[g].sinkErr = "nil"
         /\ Len(sinkLines) = 1

=============================================================================
